---- MODULE Spec2Model ----
(***************************************************************************)
(* Anime Wallpapers API (src/main.py, src/schemas.py).                     *)
(*                                                                         *)
(* The service is a set of request handlers over one document collection   *)
(* ("wallpaper").  create_wallpaper, list_wallpapers and test_database run *)
(* one store operation at most and are modelled as one step each.          *)
(* download_wallpaper issues two store operations (find_one, update_one)   *)
(* and then resolves the URL from the document it read; requests run       *)
(* concurrently, so it is modelled as three steps per client.              *)
(*                                                                         *)
(* Strings that are searched are sequences of one-character strings.       *)
(* Optional values are sets: {} is None, {v} is the value v.               *)
(* Passive payload fields (thumbnail_url, price, author, color_palette,    *)
(* aspect_ratio) are carried only as far as their required-ness matters.   *)
(***************************************************************************)
EXTENDS Integers, Sequences, FiniteSets

VARIABLES
    dbUp,     \* database.db is not None (fixed when the module is imported)
    store,    \* the "wallpaper" collection, in insertion order
    pc,       \* per client: position inside download_wallpaper
    req,      \* per client: the download request being served
    doc,      \* per client: the document find_one returned (local variable doc)
    last,     \* the response the service emitted last, with its request
    hist      \* history, per record: downloads at insertion, and the number of
              \* update_one calls executed on it

vars == <<dbUp, store, pc, req, doc, last, hist>>

\* ---------------------------------------------------------------- bounds
MaxRecords == 2
MaxDownloads == 2

\* Two clients, so that two download requests can overlap.
Clients == {1, 2}

\* ------------------------------------------------------- optional values
None == {}
Some(v) == {v}
Val(o) == CHOOSE v \in o : TRUE

\* ------------------------------------------------------------ text search
\* Case folding done by the "i" option of $regex.
Lower(c) ==
    CASE c = "N" -> "n"
      [] c = "A" -> "a"
      [] c = "X" -> "x"
      [] OTHER -> c

\* {"$regex": pattern, "$options": "i"} applied to a string field: an
\* unanchored, case-insensitive regular-expression search.  Patterns are made
\* of literal letters and the metacharacter ".", which matches any character.
RegexSearch(pattern, text) ==
    \E i \in 0..(Len(text) - Len(pattern)) :
        \A j \in 1..Len(pattern) :
            \/ pattern[j] = "."
            \/ Lower(pattern[j]) = Lower(text[i + j])

\* Case-insensitive substring containment, the reading the specification gives
\* to a search condition.
ContainsI(text, s) ==
    \E i \in 0..(Len(text) - Len(s)) :
        \A j \in 1..Len(s) : Lower(s[j]) = Lower(text[i + j])

\* Python truthiness of an Optional[str] parameter: None and "" are falsy.
Truthy(o) == o # None /\ Val(o) # <<>>

\* ------------------------------------------------------------ identifiers
\* An identifier string as a client sends it: hex says whether it has the
\* form of an ObjectId (24 hexadecimal digits), n is the ObjectId it denotes.
StrOfOid(n) == [hex |-> TRUE, n |-> n]
IsObjectIdStr(s) == s.hex
OidOfStr(s) == s.n
MalformedId == [hex |-> FALSE, n |-> 0]

\* ------------------------------------------------------------- schema
RequiredFields == {"title", "anime", "thumbnail_url", "image_urls"}
AllFields == RequiredFields \cup {"tags", "is_premium", "downloads"}

Urls(m, d) == [mobile |-> m, desktop |-> d]

Payload(given, title, anime, tags, urls, premium, downloads) ==
    [given |-> given, title |-> title, anime |-> anime, tags |-> tags,
     image_urls |-> urls, is_premium |-> premium, downloads |-> downloads]

UrlM == Some("https://cdn/m.png")
UrlD == Some("https://cdn/d.png")

\* Sample create payloads: every combination of URL presence, both premium
\* values, client-supplied and defaulted downloads, and two invalid payloads.
ValidPayloads ==
    { Payload(AllFields \ {"is_premium", "downloads", "tags"},
              <<"x">>, <<"N", "a">>, <<>>, Urls(UrlM, UrlD), FALSE, 0),
      Payload(AllFields \ {"downloads"},
              <<"x">>, <<"x">>, << <<"n", "A">> >>, Urls(None, UrlD), TRUE, 0),
      Payload(AllFields \ {"downloads"},
              <<"x">>, <<"x">>, <<>>, Urls(UrlM, None), FALSE, 0),
      Payload(AllFields,
              <<"a">>, <<"x">>, << <<"x">> >>, Urls(None, None), TRUE, 1) }

InvalidPayloads ==
    { Payload(AllFields \ {"title"},
              <<>>, <<"N", "a">>, <<>>, Urls(UrlM, UrlD), FALSE, 0),
      Payload(AllFields,
              <<"x">>, <<"x">>, <<>>, Urls(UrlM, UrlD), FALSE, -1) }

Payloads == ValidPayloads \cup InvalidPayloads

\* Field(...) declarations of Wallpaper: required fields, and downloads >= 0.
ValidWallpaper(p) ==
    /\ RequiredFields \subseteq p.given
    /\ ("downloads" \in p.given => p.downloads >= 0)

\* The validated model: defaults fill the fields the client left out.
ParseWallpaper(p) ==
    [title |-> p.title,
     anime |-> p.anime,
     tags |-> IF "tags" \in p.given THEN p.tags ELSE <<>>,
     image_urls |-> p.image_urls,
     is_premium |-> IF "is_premium" \in p.given THEN p.is_premium ELSE FALSE,
     downloads |-> IF "downloads" \in p.given THEN p.downloads ELSE 0]

\* ------------------------------------------------- Document Store Gateway
\* database.create_document: serialises the validated record to a document,
\* inserts it and returns the new identifier as a string.
InsertedDoc(s, w) ==
    [_id |-> Len(s) + 1, title |-> w.title, anime |-> w.anime, tags |-> w.tags,
     image_urls |-> w.image_urls, is_premium |-> w.is_premium,
     downloads |-> w.downloads]

CreateDocument(s, w) == Append(s, InsertedDoc(s, w))

\* A version that tests "if premium:" instead of "if premium is not None:".
BuildFilterTruthyPremium(q, anime, premium) ==
    [or |-> IF Truthy(q) THEN q ELSE None,
     anime |-> IF Truthy(anime) THEN anime ELSE None,
     is_premium |-> IF premium = Some(TRUE) THEN premium ELSE None]

\* Search Filter Builder: the filter_query dictionary.  Each key is an optional
\* condition; {} says the key is not in the dictionary.
BuildFilter(q, anime, premium) ==
    [or |-> IF Truthy(q) THEN q ELSE None,
     anime |-> IF Truthy(anime) THEN anime ELSE None,
     is_premium |-> IF premium # None THEN premium ELSE None]

\* The store evaluating filter_query on one document: the keys of the
\* dictionary are conjoined; "$or" holds when one of its three members does;
\* "$elemMatch" holds when some element of the array matches.
Matches(d, f) ==
    /\ f.or # None =>
          \/ RegexSearch(Val(f.or), d.title)
          \/ RegexSearch(Val(f.or), d.anime)
          \/ \E k \in 1..Len(d.tags) : RegexSearch(Val(f.or), d.tags[k])
    /\ f.anime # None => RegexSearch(Val(f.anime), d.anime)
    /\ f.is_premium # None => d.is_premium = Val(f.is_premium)

Take(s, n) == IF Len(s) <= n THEN s ELSE SubSeq(s, 1, n)

\* database.get_documents: up to limit documents matching the filter, in the
\* store's natural (insertion) order.
GetDocuments(s, f, limit) == Take(SelectSeq(s, LAMBDA d : Matches(d, f)), limit)

\* Query(24, ge=1, le=100)
LimitDefault == 24
LimitMin == 1
LimitMax == 100

\* A version that accepts every limit (and leaves the store to clamp it).
ValidLimitUnchecked(limit) == TRUE

ValidLimit(limit) == limit = None \/ (LimitMin <= Val(limit) /\ Val(limit) <= LimitMax)
EffectiveLimit(limit) == IF limit = None THEN LimitDefault ELSE Val(limit)

\* d["id"] = str(d.pop("_id"))
OutItem(d) ==
    [id |-> StrOfOid(d._id), title |-> d.title, anime |-> d.anime, tags |-> d.tags,
     image_urls |-> d.image_urls, is_premium |-> d.is_premium,
     downloads |-> d.downloads]

OutItems(docs) == [k \in 1..Len(docs) |-> OutItem(docs[k])]

\* ------------------------------------------------------- request inputs
QValues == {None, Some(<<>>), Some(<<"n", "a">>), Some(<<".">>)}
AnimeValues == {None, Some(<<"X">>)}
PremiumValues == {None, Some(TRUE), Some(FALSE)}
LimitValues == {None, Some(0), Some(1), Some(101)}
Devices == {"mobile", "desktop", "tablet"}
WallpaperIds == {StrOfOid(n) : n \in 1..(MaxRecords + 1)} \cup {MalformedId}

\* ------------------------------------------------------------ responses
\* A response with the request it answers; ops lists the store operations the
\* handler issued for it, each with the arguments that matter.
Response(op, request, status, body, ops) ==
    [op |-> op, req |-> request, status |-> status, body |-> body, ops |-> ops]

NoRequest == [wallpaper_id |-> MalformedId, device |-> "none"]
NoDoc == [_id |-> 0]
NoBody == [detail |-> "none"]

IsStored(s, wid) == IsObjectIdStr(wid) /\ OidOfStr(wid) \in 1..Len(s)

\* ------------------------------------------------------------------ Init
Init ==
    /\ dbUp \in BOOLEAN
    /\ store = <<>>
    /\ hist = <<>>
    /\ pc = [p \in Clients |-> "idle"]
    /\ req = [p \in Clients |-> NoRequest]
    /\ doc = [p \in Clients |-> NoDoc]
    /\ last = Response("none", NoRequest, 0, NoBody, <<>>)

\* ------------------------------------------------- POST /api/wallpapers
\* The payload is validated against WallpaperCreate before the handler runs
\* (422 on failure); any exception of create_document becomes a 500.
CreateWallpaper(payload) ==
    /\ (ValidWallpaper(payload) /\ dbUp) => Len(store) < MaxRecords
    /\ IF ~ValidWallpaper(payload)
         THEN /\ last' = Response("create", payload, 422, NoBody, <<>>)
              /\ UNCHANGED <<store, hist>>
         ELSE IF ~dbUp
         THEN /\ last' = Response("create", payload, 500, NoBody, <<>>)
              /\ UNCHANGED <<store, hist>>
         ELSE /\ store' = CreateDocument(store, ParseWallpaper(payload))
              /\ hist' = Append(hist, [initial |-> store'[Len(store')].downloads,
                                       applied |-> 0])
              /\ last' = Response("create", payload, 200,
                                  [id |-> StrOfOid(store'[Len(store')]._id)],
                                  << <<"insert_one">> >>)
    /\ UNCHANGED <<dbUp, pc, req, doc>>

\* -------------------------------------------------- GET /api/wallpapers
ListRequest(q, anime, premium, limit) ==
    [q |-> q, anime |-> anime, is_premium |-> premium, limit |-> limit]

ListWallpapers(q, anime, premium, limit) ==
    /\ IF ~ValidLimit(limit)
         THEN last' = Response("list", ListRequest(q, anime, premium, limit),
                               422, NoBody, <<>>)
         ELSE IF ~dbUp
         THEN last' = Response("list", ListRequest(q, anime, premium, limit),
                               500, NoBody, <<>>)
         ELSE last' = Response("list", ListRequest(q, anime, premium, limit), 200,
                               [items |-> OutItems(GetDocuments(store,
                                              BuildFilter(q, anime, premium),
                                              EffectiveLimit(limit)))],
                               << <<"find", EffectiveLimit(limit)>> >>)
    /\ UNCHANGED <<dbUp, store, hist, pc, req, doc>>

\* ------------------------------- POST /api/wallpapers/{wallpaper_id}/download
\* Download requests that passed the lookup, finished or not: the model admits
\* MaxDownloads of them.
RECURSIVE Applied(_)
Applied(h) == IF h = <<>> THEN 0 ELSE Head(h).applied + Applied(Tail(h))

Admitted == Applied(hist) + Cardinality({p \in Clients : pc[p] = "found"})

\* oid = ObjectId(wallpaper_id); doc = db.wallpaper.find_one({"_id": oid});
\* if not doc: raise 404.  ObjectId raises on a malformed string and db.wallpaper
\* raises when db is None: both are caught by "except Exception" (500).
\* The body is a well-formed DownloadRequest (device is a string).
DownloadLookup(p, wid, device) ==
    /\ pc[p] = "idle"
    /\ (dbUp /\ IsStored(store, wid)) => Admitted < MaxDownloads
    /\ IF ~IsObjectIdStr(wid) \/ ~dbUp
         THEN /\ last' = Response("download", [wallpaper_id |-> wid, device |-> device],
                                  500, NoBody, <<>>)
              /\ UNCHANGED <<pc, req, doc>>
         ELSE IF ~IsStored(store, wid)
         THEN /\ last' = Response("download", [wallpaper_id |-> wid, device |-> device],
                                  404, NoBody, << <<"find_one">> >>)
              /\ UNCHANGED <<pc, req, doc>>
         ELSE /\ pc' = [pc EXCEPT ![p] = "found"]
              /\ req' = [req EXCEPT ![p] = [wallpaper_id |-> wid, device |-> device]]
              /\ doc' = [doc EXCEPT ![p] = store[OidOfStr(wid)]]
              /\ UNCHANGED last
    /\ UNCHANGED <<dbUp, store, hist>>

\* A version whose update filter matches every document of the collection.
DownloadIncrementEvery(p) ==
    /\ pc[p] = "found"
    /\ store' = [i \in 1..Len(store) |-> [store[i] EXCEPT !.downloads = @ + 1]]
    /\ hist' = [hist EXCEPT ![OidOfStr(req[p].wallpaper_id)].applied = @ + 1]
    /\ pc' = [pc EXCEPT ![p] = "updated"]
    /\ UNCHANGED <<dbUp, req, doc, last>>

\* A version that computes the new value in the service from the document it
\* read instead of using $inc.
DownloadIncrementReadModifyWrite(p) ==
    /\ pc[p] = "found"
    /\ store' = [store EXCEPT ![OidOfStr(req[p].wallpaper_id)].downloads =
                                  doc[p].downloads + 1]
    /\ hist' = [hist EXCEPT ![OidOfStr(req[p].wallpaper_id)].applied = @ + 1]
    /\ pc' = [pc EXCEPT ![p] = "updated"]
    /\ UNCHANGED <<dbUp, req, doc, last>>

\* db.wallpaper.update_one({"_id": oid}, {"$inc": {"downloads": 1}})
DownloadIncrement(p) ==
    /\ pc[p] = "found"
    /\ store' = [store EXCEPT ![OidOfStr(req[p].wallpaper_id)].downloads = @ + 1]
    /\ hist' = [hist EXCEPT ![OidOfStr(req[p].wallpaper_id)].applied = @ + 1]
    /\ pc' = [pc EXCEPT ![p] = "updated"]
    /\ UNCHANGED <<dbUp, req, doc, last>>

\* A version in which device "mobile" falls back to the desktop URL.
ResolveUrlSymmetric(device, image_urls) ==
    IF device = "mobile"
      THEN IF image_urls.mobile # None THEN image_urls.mobile ELSE image_urls.desktop
      ELSE IF image_urls.desktop # None THEN image_urls.desktop ELSE image_urls.mobile

\* url = image_urls.get("mobile") if device == "mobile"
\*       else image_urls.get("desktop") or image_urls.get("mobile")
ResolveUrl(device, image_urls) ==
    IF device = "mobile"
      THEN image_urls.mobile
      ELSE IF image_urls.desktop # None THEN image_urls.desktop ELSE image_urls.mobile

\* A version that takes the increment back when no URL is available.
DownloadResolveRollback(p) ==
    /\ pc[p] = "updated"
    /\ LET url == ResolveUrl(req[p].device, doc[p].image_urls)
           oid == OidOfStr(req[p].wallpaper_id)
       IN  /\ last' = IF url = None
                        THEN Response("download", req[p], 400, NoBody,
                                      << <<"find_one">>, <<"update_one">> >>)
                        ELSE Response("download", req[p], 200, [url |-> Val(url)],
                                      << <<"find_one">>, <<"update_one">> >>)
           /\ store' = IF url = None
                         THEN [store EXCEPT ![oid].downloads = @ - 1]
                         ELSE store
    /\ pc' = [pc EXCEPT ![p] = "idle"]
    /\ req' = [req EXCEPT ![p] = NoRequest]
    /\ doc' = [doc EXCEPT ![p] = NoDoc]
    /\ UNCHANGED <<dbUp, hist>>

\* if not url: raise 400; return {"url": url}
DownloadResolve(p) ==
    /\ pc[p] = "updated"
    /\ LET url == ResolveUrl(req[p].device, doc[p].image_urls)
       IN  last' = IF url = None
                     THEN Response("download", req[p], 400, NoBody,
                                   << <<"find_one">>, <<"update_one">> >>)
                     ELSE Response("download", req[p], 200, [url |-> Val(url)],
                                   << <<"find_one">>, <<"update_one">> >>)
    /\ pc' = [pc EXCEPT ![p] = "idle"]
    /\ req' = [req EXCEPT ![p] = NoRequest]
    /\ doc' = [doc EXCEPT ![p] = NoDoc]
    /\ UNCHANGED <<dbUp, store, hist>>

\* ------------------------------------------------------------ GET /test
TestBody(database, status) == [database |-> database, connection_status |-> status]

\* A version without the else branch for db is None: the handler fails.
TestDatabaseUnguarded(listed) ==
    /\ last' = Response("test", NoRequest,
                        IF dbUp THEN 200 ELSE 500,
                        IF dbUp
                          THEN IF listed
                                 THEN TestBody("Connected & Working", "Connected")
                                 ELSE TestBody("Connected but Error", "Connected")
                          ELSE NoBody,
                        IF dbUp THEN << <<"list_collection_names">> >> ELSE <<>>)
    /\ UNCHANGED <<dbUp, store, hist, pc, req, doc>>

\* listed: whether db.list_collection_names() returned without raising.
TestDatabase(listed) ==
    /\ last' = Response("test", NoRequest, 200,
                        IF dbUp
                          THEN IF listed
                                 THEN TestBody("Connected & Working", "Connected")
                                 ELSE TestBody("Connected but Error", "Connected")
                          ELSE TestBody("Available but not initialized", "Not Connected"),
                        IF dbUp THEN << <<"list_collection_names">> >> ELSE <<>>)
    /\ UNCHANGED <<dbUp, store, hist, pc, req, doc>>

\* ------------------------------------------------------------------ Next
\* The whole service: every handler, two concurrent clients, the inputs that
\* decide the control flow of each handler.
CorePayloads ==
    {p \in Payloads : \/ (p.image_urls.mobile = None) = (p.image_urls.desktop = None)
                      \/ ~ValidWallpaper(p)}

Next ==
    \/ \E payload \in CorePayloads : CreateWallpaper(payload)
    \/ \E premium \in PremiumValues, limit \in {None, Some(0)} :
          ListWallpapers(None, None, premium, limit)
    \/ \E p \in Clients, wid \in WallpaperIds, device \in {"mobile", "desktop"} :
          DownloadLookup(p, wid, device)
    \/ \E p \in Clients : DownloadIncrement(p)
    \/ \E p \in Clients : DownloadResolve(p)
    \/ \E listed \in BOOLEAN : TestDatabase(listed)

Spec == Init /\ [][Next]_vars

\* Download resolution, one request at a time: every payload, identifier and
\* device.
NextDownload ==
    \/ \E payload \in Payloads : CreateWallpaper(payload)
    \/ \E wid \in WallpaperIds, device \in Devices : DownloadLookup(1, wid, device)
    \/ DownloadIncrement(1)
    \/ DownloadResolve(1)

SpecDownload == Init /\ [][NextDownload]_vars

\* Search: every payload and every combination of query parameters.
NextSearch ==
    \/ \E payload \in Payloads : CreateWallpaper(payload)
    \/ \E q \in QValues, anime \in AnimeValues, premium \in PremiumValues,
          limit \in LimitValues : ListWallpapers(q, anime, premium, limit)

SpecSearch == Init /\ [][NextSearch]_vars

\* ================================================================ claims
Quiescent == \A p \in Clients : pc[p] = "idle"

\* The client whose update_one is executed by this step, for record i.
IncrementsNow(p, i) ==
    /\ pc[p] = "found"
    /\ pc'[p] = "updated"
    /\ OidOfStr(req[p].wallpaper_id) = i

\* C1: records are never removed; in every step the downloads counter of a
\* stored record either keeps its value or grows by exactly 1, and it grows
\* only in a step in which a download request for that record executes its
\* increment.  Steps of create and list leave every stored counter as it was.
C1_CounterOnlyGrowsByDownload ==
    [][ /\ Len(store') >= Len(store)
        /\ \A i \in 1..Len(store) :
              /\ store'[i]._id = store[i]._id
              /\ \/ store'[i].downloads = store[i].downloads
                 \/ /\ store'[i].downloads = store[i].downloads + 1
                    /\ \E p \in Clients : IncrementsNow(p, i)
        /\ (last'.op \in {"create", "list"} /\ last' # last) =>
              \A i \in 1..Len(store) : store'[i].downloads = store[i].downloads
      ]_vars

\* C1 witness: two records are stored, the first has been downloaded, and the
\* last request served was a successful list.
C1_Witness ==
    /\ Len(store) = 2
    /\ store[1].downloads = hist[1].initial + 1
    /\ store[2].downloads = hist[2].initial
    /\ last.op = "list"
    /\ last.status = 200

\* C2: once no download request is between its lookup and its increment, the
\* counter of every record equals its value at insertion plus the number of
\* download requests that executed their increment on it, whatever the
\* interleaving (no lost update); a request that has incremented finds, on
\* re-reading the record, a counter above the one it read at lookup.
C2_NoLostUpdate ==
    /\ (\A p \in Clients : pc[p] # "found") =>
          \A i \in 1..Len(store) :
              store[i].downloads = hist[i].initial + hist[i].applied
    /\ \A p \in Clients :
          pc[p] = "updated" =>
              store[OidOfStr(req[p].wallpaper_id)].downloads >= doc[p].downloads + 1

\* C2 witness: two requests on the same record both read the document before
\* either incremented it (they hold the same counter value), both have
\* incremented, and the stored counter is that value plus 2.
C2_Witness ==
    /\ pc[1] = "updated"
    /\ pc[2] = "updated"
    /\ req[1].wallpaper_id = req[2].wallpaper_id
    /\ doc[1].downloads = doc[2].downloads
    /\ store[OidOfStr(req[1].wallpaper_id)].downloads = doc[1].downloads + 2

\* C6: a successful list with is_premium present returns only records whose
\* stored is_premium field (set at creation, never updated) equals the
\* parameter; is_premium=false is a present parameter.
C6_PremiumFilterExact ==
    (last.op = "list" /\ last.status = 200 /\ last.req.is_premium # None) =>
        \A k \in 1..Len(last.body.items) :
            /\ last.body.items[k].is_premium = Val(last.req.is_premium)
            /\ store[OidOfStr(last.body.items[k].id)].is_premium
                  = Val(last.req.is_premium)

\* C6 witness: after a download, a list with is_premium=false returned some
\* record and left out another.
C6_Witness ==
    /\ last.op = "list"
    /\ last.status = 200
    /\ last.req.is_premium = Some(FALSE)
    /\ Len(last.body.items) = 1
    /\ Len(store) = 2
    /\ Applied(hist) > 0

\* C3 (as claimed): with the store available, a download request whose
\* identifier is not the id of a stored wallpaper is answered 404 and issues no
\* update.
C3_UnknownIdIsNotFound ==
    (dbUp /\ last.op = "download" /\ ~IsStored(store, last.req.wallpaper_id)) =>
        /\ last.status = 404
        /\ \A k \in 1..Len(last.ops) : last.ops[k] # <<"update_one">>

\* Download resolution as the specification states it, from the record's
\* image_urls: the expected status and URL for a device.
ExpectedDownload(device, image_urls) ==
    IF device = "mobile"
      THEN IF image_urls.mobile = None
             THEN [status |-> 400, body |-> NoBody]
             ELSE [status |-> 200, body |-> [url |-> Val(image_urls.mobile)]]
      ELSE IF image_urls.desktop # None
             THEN [status |-> 200, body |-> [url |-> Val(image_urls.desktop)]]
             ELSE IF image_urls.mobile # None
                    THEN [status |-> 200, body |-> [url |-> Val(image_urls.mobile)]]
                    ELSE [status |-> 400, body |-> NoBody]

\* C4: a download that reached URL resolution (answered 200 or 400) on a stored
\* record returns the mobile URL for device "mobile" and 400 when mobile is
\* absent, even if desktop is set; for any other device the desktop URL when
\* set, otherwise the mobile URL, and 400 only when both are absent.
C4_UrlResolution ==
    (last.op = "download" /\ last.status \in {200, 400}) =>
        LET e == ExpectedDownload(last.req.device,
                                  store[OidOfStr(last.req.wallpaper_id)].image_urls)
        IN  /\ last.status = e.status
            /\ last.body = e.body

\* C4 witness: device "mobile" on a record with only the desktop URL set was
\* answered 400.
C4_Witness ==
    /\ last.op = "download"
    /\ last.status = 400
    /\ last.req.device = "mobile"
    /\ store[OidOfStr(last.req.wallpaper_id)].image_urls.mobile = None
    /\ store[OidOfStr(last.req.wallpaper_id)].image_urls.desktop # None

\* C10: the step that answers a download after URL resolution, with 200 or
\* with 400, leaves the store as it is, follows the lookup and the increment in
\* that order, and finds the counter exactly 1 above the value read at lookup
\* (one request at a time); a step that answers 404 has issued the lookup only
\* and leaves the store as it is.
C10_IncrementBeforeResolveNoRollback ==
    [][ /\ \A p \in Clients :
              (pc[p] = "updated" /\ pc'[p] = "idle") =>
                  /\ last'.status \in {200, 400}
                  /\ last'.ops = << <<"find_one">>, <<"update_one">> >>
                  /\ store'[OidOfStr(req[p].wallpaper_id)].downloads
                        = doc[p].downloads + 1
        /\ (last'.op = "download" /\ last'.status = 404 /\ last' # last) =>
              /\ last'.ops = << <<"find_one">> >>
              /\ store' = store
      ]_vars

\* C10 witness: a download was answered 400 and the record's counter is 1 above
\* its value at insertion.
C10_Witness ==
    /\ last.op = "download"
    /\ last.status = 400
    /\ store[OidOfStr(last.req.wallpaper_id)].downloads
          = hist[OidOfStr(last.req.wallpaper_id)].initial + 1
    /\ hist[OidOfStr(last.req.wallpaper_id)].applied = 1

\* A search condition as the specification reads it: the text contains the
\* parameter as a case-insensitive substring.
SatisfiesQ(item, s) ==
    \/ ContainsI(item.title, s)
    \/ ContainsI(item.anime, s)
    \/ \E k \in 1..Len(item.tags) : ContainsI(item.tags[k], s)

\* C5 (as claimed): a successful list returns at most limit records, and every
\* returned record satisfies each condition of a present parameter: q as a
\* case-insensitive substring of title, anime or some tag; anime as a
\* case-insensitive substring of the anime field; is_premium by equality.
C5_ListReturnsOnlyMatches ==
    (last.op = "list" /\ last.status = 200) =>
        /\ Len(last.body.items) <= EffectiveLimit(last.req.limit)
        /\ \A k \in 1..Len(last.body.items) :
              LET item == last.body.items[k]
              IN  /\ last.req.q # None => SatisfiesQ(item, Val(last.req.q))
                  /\ last.req.anime # None =>
                        ContainsI(item.anime, Val(last.req.anime))
                  /\ last.req.is_premium # None =>
                        item.is_premium = Val(last.req.is_premium)

\* C7: every step of create or list answers 422 exactly when the request fails
\* boundary validation (limit outside 1..100, a required field missing, a
\* negative downloads), and such a step issues no store operation and leaves
\* the store as it is; a list without limit queries the store with limit 24.
C7_RejectedBeforeStore ==
    [][ /\ last'.op = "list" =>
              (last'.status = 422 <=>
                  /\ last'.req.limit # None
                  /\ (Val(last'.req.limit) < 1 \/ Val(last'.req.limit) > 100))
        /\ last'.op = "create" =>
              (last'.status = 422 <=>
                  \/ \E f \in {"title", "anime", "thumbnail_url", "image_urls"} :
                        f \notin last'.req.given
                  \/ ("downloads" \in last'.req.given /\ last'.req.downloads < 0))
        /\ last'.status = 422 =>
              /\ last'.ops = <<>>
              /\ store' = store
        /\ (last'.op = "list" /\ last'.status = 200 /\ last'.req.limit = None) =>
              last'.ops = << <<"find", 24>> >>
      ]_vars

\* C7 witness: with records stored, a list with limit 101 was answered 422.
C7_Witness ==
    /\ Len(store) > 0
    /\ last.op = "list"
    /\ last.status = 422
    /\ last.req.limit = Some(101)
    /\ last.ops = <<>>

\* C8 (as claimed): the record stored by a successful create has downloads 0
\* (no download request runs in this specification).
C8_CreateStartsAtZero ==
    (last.op = "create" /\ last.status = 200) =>
        store[OidOfStr(last.body.id)].downloads = 0

\* C9 (as claimed): in degraded mode every create, list and download request
\* is answered 500.
C9_DegradedAlways500 ==
    (~dbUp /\ last.op \in {"create", "list", "download"}) => last.status = 500

\* C9 (amended): in degraded mode nothing is stored, no request is left in
\* flight and no store operation is issued; a create, list or download
\* request is answered 500 when it passes boundary validation and 422 when it
\* does not; GET /test answers 200 and reports "Not Connected".
C9_Degraded ==
    ~dbUp =>
        /\ store = <<>>
        /\ Quiescent
        /\ last.ops = <<>>
        /\ last.op = "create" =>
              last.status = IF ValidWallpaper(last.req) THEN 500 ELSE 422
        /\ last.op = "list" =>
              last.status = IF ValidLimit(last.req.limit) THEN 500 ELSE 422
        /\ last.op = "download" => last.status = 500
        /\ last.op = "test" =>
              /\ last.status = 200
              /\ last.body.connection_status = "Not Connected"

\* C9 witness: in degraded mode a download request was answered 500.
C9_Witness ==
    /\ ~dbUp
    /\ last.op = "download"
    /\ last.status = 500

====
